---- MODULE Spec2Model ----
(***************************************************************************)
(* Model of src/auth/client.ts: resolution of the OAuth2 client            *)
(* credentials.  The file holds two revisions of the module: the first     *)
(* reads the credentials from process.env (lines 1-76), the second from    *)
(* the Doppler SDK (lines 77-170).  A behaviour runs one of them (rev).    *)
(*                                                                         *)
(* JavaScript values are tagged records of one shape, [t, s, a]: t is the  *)
(* type, s the text of a string, a the elements of an array.  An error is  *)
(* its message, and a message is the sequence of the text fragments it is  *)
(* put together from, so that a template literal is a concatenation.       *)
(***************************************************************************)
EXTENDS Naturals, Sequences, FiniteSets

VARIABLES
  rev,          \* the revision of client.ts that runs: "env" or "sdk"
  environ,      \* process.env
  keysFile,     \* what fs.readFile/JSON.parse give for getKeysFilePath()
  fileResult,   \* settled promise of the last loadCredentialsFromFile()
  pc,           \* position of the running call
  entry,        \* exported function that was called
  calls,        \* calls made so far
  dopplerToken, \* local of loadCredentialsWithFallback, line 105
  promise,      \* promise of doppler.secrets.list, line 113
  attempts,     \* sources the running call has read, in order
  listCalls,    \* doppler.secrets.list invocations of the running call
  stderr,       \* what the running call wrote to process.stderr
  resolved,     \* settled promise of loadCredentialsWithFallback()
  outcome       \* settled promise of the exported function

vars == <<rev, environ, keysFile, fileResult, pc, entry, calls, dopplerToken,
          promise, attempts, listCalls, stderr, resolved, outcome>>

\* Calls of the exported functions in one behaviour.
MaxCalls == 2

-----------------------------------------------------------------------------
(* JavaScript values *)

Undefined == [t |-> "undefined", s |-> "", a |-> <<>>]
Null == [t |-> "null", s |-> "", a |-> <<>>]
Str(x) == [t |-> "string", s |-> x, a |-> <<>>]
Arr(q) == [t |-> "array", s |-> "", a |-> q]

\* ToBoolean: undefined, null and "" are falsy; an array, even empty, is truthy.
Truthy(v) ==
  CASE v.t = "undefined" -> FALSE
    [] v.t = "null" -> FALSE
    [] v.t = "string" -> v.s # ""
    [] OTHER -> TRUE

\* a || b
OrElse(a, b) == IF Truthy(a) THEN a ELSE b

\* A settled promise: fulfilled with a value, or rejected with an Error.
NoCredentials ==
  [client_id |-> Undefined, client_secret |-> Undefined, redirect_uris |-> Undefined]
Fulfilled(v) == [state |-> "fulfilled", value |-> v, message |-> <<>>]
Rejected(m) == [state |-> "rejected", value |-> NoCredentials, message |-> m]
Pending == [state |-> "pending", value |-> NoCredentials, message |-> <<>>]

-----------------------------------------------------------------------------
(* loadCredentialsFromFile *)

DefaultRedirectUris == Arr(<<"http://localhost:3000/oauth2callback">>)

InvalidFormatMessage ==
  <<"Invalid credentials file format. Expected either ", "\"installed\" object",
    " or ", "direct client_id/client_secret fields", ".">>

\* Messages of the errors of fs.readFile and JSON.parse; the reader catches neither.
ReadFileMessage == <<"ENOENT: no such file or directory, open ", "gcp-oauth.keys.json">>
ParseMessage == <<"Unexpected end of JSON input">>

\* keys.installed.<name>: a property of a value that is no object is undefined.
Property(installed) ==
  [client_id |-> IF installed.t = "object" THEN installed.client_id ELSE Undefined,
   client_secret |-> IF installed.t = "object" THEN installed.client_secret ELSE Undefined,
   redirect_uris |-> IF installed.t = "object" THEN installed.redirect_uris ELSE Undefined]

InstalledTruthy(installed) == installed.t \notin {"undefined", "null"}

\* The direct format without the default of line 18.
MutClassifyNoDefault(keys) ==
  IF InstalledTruthy(keys.installed)
  THEN Fulfilled(Property(keys.installed))
  ELSE IF Truthy(keys.client_id) /\ Truthy(keys.client_secret)
       THEN Fulfilled([client_id |-> keys.client_id,
                       client_secret |-> keys.client_secret,
                       redirect_uris |-> keys.redirect_uris])
       ELSE Rejected(InvalidFormatMessage)

\* Lines 9-22 and 86-99: the shape of the parsed document decides.
ClassifyKeys(keys) ==
  IF InstalledTruthy(keys.installed)
  THEN Fulfilled(Property(keys.installed))
  ELSE IF Truthy(keys.client_id) /\ Truthy(keys.client_secret)
       THEN Fulfilled([client_id |-> keys.client_id,
                       client_secret |-> keys.client_secret,
                       redirect_uris |-> OrElse(keys.redirect_uris, DefaultRedirectUris)])
       ELSE Rejected(InvalidFormatMessage)

loadCredentialsFromFile(file) ==
  CASE file.state = "missing" -> Rejected(ReadFileMessage)
    [] file.state = "malformed" -> Rejected(ParseMessage)
    [] OTHER -> ClassifyKeys(file.keys)

\* The values a field of the key file takes.
IdValues == {Undefined, Str(""), Str("file-id")}
SecretValues == {Undefined, Str(""), Str("file-secret")}
UriValues == {Undefined, Null, Arr(<<>>), Arr(<<"http://file/cb">>)}

NoObject(tag) ==
  [t |-> tag, client_id |-> Undefined, client_secret |-> Undefined,
   redirect_uris |-> Undefined]

InstalledValues ==
  {NoObject("undefined"), NoObject("null"), NoObject("string")} \cup
  [t : {"object"}, client_id : IdValues, client_secret : SecretValues,
   redirect_uris : UriValues \ {Null}]

Documents ==
  [installed : InstalledValues, client_id : IdValues, client_secret : SecretValues,
   redirect_uris : UriValues]

NoDocument ==
  [installed |-> NoObject("undefined"), client_id |-> Undefined,
   client_secret |-> Undefined, redirect_uris |-> Undefined]

KeyFiles ==
  {[state |-> "missing", keys |-> NoDocument],
   [state |-> "malformed", keys |-> NoDocument]} \cup
  [state : {"parsed"}, keys : Documents]

-----------------------------------------------------------------------------
(* loadCredentialsWithFallback, first revision: process.env *)

EnvironmentNotFoundMessage ==
  <<"Doppler OAuth credentials not found. Please ensure ", "GOOGLE_CLIENT_ID", ", ",
    "GOOGLE_CLIENT_SECRET", ", and ", "GOOGLE_REDIRECT_URI",
    " environment variables are set.">>

EnvironmentNotice == "Loading OAuth credentials from Doppler environment variables\n"

\* The notice without the test of NODE_ENV.
MutNoticeAlways(env, text) == <<text>>

\* Lines 32-34 and 125-127: the notice, unless NODE_ENV is 'test'.
Notice(env, text) == IF env.NODE_ENV # Str("test") THEN <<text>> ELSE <<>>

\* The condition of line 31 without redirectUri.
MutEnvironmentNoUriCheck(env) ==
  LET clientId == env.GOOGLE_CLIENT_ID
      clientSecret == env.GOOGLE_CLIENT_SECRET
      redirectUri == env.GOOGLE_REDIRECT_URI
  IN IF Truthy(clientId) /\ Truthy(clientSecret)
     THEN Fulfilled([client_id |-> clientId, client_secret |-> clientSecret,
                     redirect_uris |-> Arr(<<redirectUri.s>>)])
     ELSE Rejected(EnvironmentNotFoundMessage)

\* Lines 27-42.
EnvironmentCredentials(env) ==
  LET clientId == env.GOOGLE_CLIENT_ID
      clientSecret == env.GOOGLE_CLIENT_SECRET
      redirectUri == env.GOOGLE_REDIRECT_URI
  IN IF Truthy(clientId) /\ Truthy(clientSecret) /\ Truthy(redirectUri)
     THEN Fulfilled([client_id |-> clientId, client_secret |-> clientSecret,
                     redirect_uris |-> Arr(<<redirectUri.s>>)])
     ELSE Rejected(EnvironmentNotFoundMessage)

-----------------------------------------------------------------------------
(* loadCredentialsWithFallback, second revision: the Doppler SDK *)

TokenMessage == <<"DOPPLER_TOKEN environment variable not set">>

DopplerNotFoundMessage ==
  <<"Doppler OAuth credentials not found. Please ensure ", "GOOGLE_CLIENT_ID", ", ",
    "GOOGLE_CLIENT_SECRET", ", and ", "GOOGLE_REDIRECT_URI", " are set in Doppler.">>

DopplerNotice == "Loading OAuth credentials from Doppler via SDK\n"

\* What doppler.secrets.list may throw: an Error, or a value that is none.
SdkFailures ==
  {[t |-> "Error", s |-> "connect ECONNREFUSED 52.0.0.1:443"],
   [t |-> "Error", s |-> "timeout of 30000ms exceeded"],
   [t |-> "string", s |-> "Service Unavailable"],
   [t |-> "object", s |-> "Invalid Auth token"]}

\* error instanceof Error ? error.message : error, in a template literal.
ErrorText(e) ==
  CASE e.t = "Error" -> e.s
    [] e.t = "string" -> e.s
    [] OTHER -> "[object Object]"

\* secrets.<NAME>?.computed of each of the three names.
ComputedValues == {Undefined, Str(""), Str("doppler")}
SecretMaps ==
  [GOOGLE_CLIENT_ID : ComputedValues, GOOGLE_CLIENT_SECRET : ComputedValues,
   GOOGLE_REDIRECT_URI : ComputedValues]
NoSecrets ==
  [GOOGLE_CLIENT_ID |-> Undefined, GOOGLE_CLIENT_SECRET |-> Undefined,
   GOOGLE_REDIRECT_URI |-> Undefined]

\* What list resolves to: undefined, an object without secrets, or one with.
SecretsResponses ==
  {[t |-> "undefined", secrets |-> NoSecrets], [t |-> "empty", secrets |-> NoSecrets]}
  \cup [t : {"object"}, secrets : SecretMaps]

NoFailure == [t |-> "none", s |-> ""]
NoResponse == [t |-> "none", secrets |-> NoSecrets]
ListPending == [state |-> "pending", response |-> NoResponse, error |-> NoFailure]
ListFulfilled(r) == [state |-> "fulfilled", response |-> r, error |-> NoFailure]
ListRejected(e) == [state |-> "rejected", response |-> NoResponse, error |-> e]

\* Reading .secrets of undefined throws a TypeError inside the try block.
SecretsTypeError ==
  [t |-> "Error", s |-> "Cannot read properties of undefined (reading 'secrets')"]

DopplerPrefix == "Failed to load OAuth credentials from Doppler: "

\* A catch block that drops the message of what it caught.
MutDopplerFailureGeneric(text) == Rejected(<<DopplerPrefix>>)

\* Lines 134-136: the catch block of the second revision.
DopplerFailure(text) == Rejected(<<DopplerPrefix>> \o text)

\* A test for undefined alone, which lets the empty token through.
MutTokenUndefinedOnly(token) == token.t = "undefined"

\* Line 106.
TokenMissing(token) == ~Truthy(token)

\* Lines 115-133, after the await of line 113 has a response.
ExtractSecrets(response) ==
  LET clientId == response.secrets.GOOGLE_CLIENT_ID
      clientSecret == response.secrets.GOOGLE_CLIENT_SECRET
      redirectUri == response.secrets.GOOGLE_REDIRECT_URI
  IN IF response.t = "undefined"
     THEN DopplerFailure(<<ErrorText(SecretsTypeError)>>)
     ELSE IF ~Truthy(clientId) \/ ~Truthy(clientSecret) \/ ~Truthy(redirectUri)
          THEN DopplerFailure(DopplerNotFoundMessage)
          ELSE Fulfilled([client_id |-> clientId, client_secret |-> clientSecret,
                          redirect_uris |-> Arr(<<redirectUri.s>>)])

\* Lines 113-136, once the promise of list is settled.
RemoteCredentials(p) ==
  IF p.state = "rejected"
  THEN DopplerFailure(<<ErrorText(p.error)>>)
  ELSE ExtractSecrets(p.response)

-----------------------------------------------------------------------------
(* The exported functions *)

MissingFieldMessage == <<"Client ID or Client Secret missing in credentials.">>

RedirectTypeError == <<"Cannot read properties of undefined (reading '0')">>

\* Lines 45-60 and 139-154.
initializeOAuth2Client(credentials) ==
  IF credentials.state = "rejected"
  THEN Rejected(<<"Error loading OAuth keys: ">> \o credentials.message)
  ELSE LET uris == credentials.value.redirect_uris
       IN IF uris.t \in {"undefined", "null"}
          THEN Rejected(<<"Error loading OAuth keys: ">> \o RedirectTypeError)
          ELSE Fulfilled([clientId |-> credentials.value.client_id,
                          clientSecret |-> credentials.value.client_secret,
                          redirectUri |-> IF Len(uris.a) > 0 THEN Str(uris.a[1])
                                          ELSE Undefined])

\* A catch block that throws on what it caught, as it is.
MutLoadCredentialsRaw(credentials) ==
  IF credentials.state = "rejected"
  THEN Rejected(credentials.message)
  ELSE IF ~Truthy(credentials.value.client_id) \/ ~Truthy(credentials.value.client_secret)
       THEN Rejected(MissingFieldMessage)
       ELSE Fulfilled([client_id |-> credentials.value.client_id,
                       client_secret |-> credentials.value.client_secret])

\* Lines 62-76 and 156-170.
loadCredentials(credentials) ==
  IF credentials.state = "rejected"
  THEN Rejected(<<"Error loading credentials: ">> \o credentials.message)
  ELSE IF ~Truthy(credentials.value.client_id) \/ ~Truthy(credentials.value.client_secret)
       THEN Rejected(<<"Error loading credentials: ">> \o MissingFieldMessage)
       ELSE Fulfilled([client_id |-> credentials.value.client_id,
                       client_secret |-> credentials.value.client_secret])

Exported(e, credentials) ==
  IF e = "initializeOAuth2Client" THEN initializeOAuth2Client(credentials)
  ELSE loadCredentials(credentials)

-----------------------------------------------------------------------------
(* The state machine *)

EnvValues(v) == {Undefined, Str(""), Str(v)}

Environments ==
  [GOOGLE_CLIENT_ID : EnvValues("id1"), GOOGLE_CLIENT_SECRET : EnvValues("secret1"),
   GOOGLE_REDIRECT_URI : EnvValues("http://x/cb"), DOPPLER_TOKEN : EnvValues("dp.st.token"),
   NODE_ENV : {Undefined, Str("test"), Str("production")}]

\* Key files of the resolver's behaviours: none, one of each accepted shape, and
\* one of neither.
InstalledFile ==
  [state |-> "parsed",
   keys |-> [NoDocument EXCEPT !.installed =
               [t |-> "object", client_id |-> Str("file-id"),
                client_secret |-> Str("file-secret"),
                redirect_uris |-> Arr(<<"http://file/cb">>)]]]
FlatFile ==
  [state |-> "parsed",
   keys |-> [NoDocument EXCEPT !.client_id = Str("file-id"),
                                !.client_secret = Str("file-secret")]]
ResolverKeyFiles ==
  {[state |-> "missing", keys |-> NoDocument], [state |-> "parsed", keys |-> NoDocument],
   InstalledFile, FlatFile}

Entries == {"initializeOAuth2Client", "loadCredentials"}

Idle ==
  /\ pc = "idle"
  /\ entry = "none"
  /\ calls = 0
  /\ dopplerToken = Undefined
  /\ promise = ListPending
  /\ attempts = <<>>
  /\ listCalls = 0
  /\ stderr = <<>>
  /\ resolved = Pending
  /\ outcome = Pending

Init ==
  /\ rev \in {"env", "sdk"}
  /\ environ \in Environments
  /\ keysFile \in ResolverKeyFiles
  /\ fileResult = Pending
  /\ Idle

\* A caller calls an exported function; no call is running.
Invoke(e) ==
  /\ pc \in {"idle", "done"}
  /\ calls < MaxCalls
  /\ pc' = "resolve"
  /\ entry' = e
  /\ calls' = calls + 1
  /\ dopplerToken' = Undefined
  /\ promise' = ListPending
  /\ attempts' = <<>>
  /\ listCalls' = 0
  /\ stderr' = <<>>
  /\ resolved' = Pending
  /\ outcome' = Pending
  /\ UNCHANGED <<rev, environ, keysFile, fileResult>>

\* Lines 25-43: the first revision runs without suspending.
ReadEnvironment ==
  /\ pc = "resolve"
  /\ rev = "env"
  /\ attempts' = Append(attempts, "environment")
  /\ resolved' = EnvironmentCredentials(environ)
  /\ stderr' = IF resolved'.state = "fulfilled"
               THEN stderr \o Notice(environ, EnvironmentNotice) ELSE stderr
  /\ pc' = "resolved"
  /\ UNCHANGED <<rev, environ, keysFile, fileResult, entry, calls, dopplerToken,
                 promise, listCalls, outcome>>

\* Lines 105-110.
ReadToken ==
  /\ pc = "resolve"
  /\ rev = "sdk"
  /\ attempts' = Append(attempts, "remote")
  /\ dopplerToken' = environ.DOPPLER_TOKEN
  /\ IF TokenMissing(dopplerToken')
     THEN resolved' = DopplerFailure(TokenMessage) /\ pc' = "resolved"
     ELSE resolved' = resolved /\ pc' = "list"
  /\ UNCHANGED <<rev, environ, keysFile, fileResult, entry, calls, promise,
                 listCalls, stderr, outcome>>

\* Line 113: the call of doppler.secrets.list; the function suspends.
ListSecrets ==
  /\ pc = "list"
  /\ listCalls' = listCalls + 1
  /\ promise' = ListPending
  /\ pc' = "awaiting"
  /\ UNCHANGED <<rev, environ, keysFile, fileResult, entry, calls, dopplerToken,
                 attempts, stderr, resolved, outcome>>

\* The SDK settles the promise of list.
SdkResponds ==
  /\ pc = "awaiting"
  /\ promise.state = "pending"
  /\ \E r \in SecretsResponses : promise' = ListFulfilled(r)
  /\ UNCHANGED <<rev, environ, keysFile, fileResult, pc, entry, calls, dopplerToken,
                 attempts, listCalls, stderr, resolved, outcome>>

SdkThrows ==
  /\ pc = "awaiting"
  /\ promise.state = "pending"
  /\ \E e \in SdkFailures : promise' = ListRejected(e)
  /\ UNCHANGED <<rev, environ, keysFile, fileResult, pc, entry, calls, dopplerToken,
                 attempts, listCalls, stderr, resolved, outcome>>

\* A retry loop around the list call, which the source does not have.
MutRetryAfterList ==
  /\ pc = "awaiting"
  /\ promise.state # "pending"
  /\ IF promise.state = "rejected"
     THEN /\ pc' = "list"
          /\ UNCHANGED <<resolved, stderr>>
     ELSE /\ resolved' = RemoteCredentials(promise)
          /\ stderr' = IF resolved'.state = "fulfilled"
                       THEN stderr \o Notice(environ, DopplerNotice) ELSE stderr
          /\ pc' = "resolved"
  /\ UNCHANGED <<rev, environ, keysFile, fileResult, entry, calls, dopplerToken,
                 promise, attempts, listCalls, outcome>>

\* Lines 113-136: the function resumes with the settled promise.
ResumeAfterList ==
  /\ pc = "awaiting"
  /\ promise.state # "pending"
  /\ resolved' = RemoteCredentials(promise)
  /\ stderr' = IF resolved'.state = "fulfilled"
               THEN stderr \o Notice(environ, DopplerNotice) ELSE stderr
  /\ pc' = "resolved"
  /\ UNCHANGED <<rev, environ, keysFile, fileResult, entry, calls, dopplerToken,
                 promise, attempts, listCalls, outcome>>

\* The exported function resumes after its await of loadCredentialsWithFallback.
Return ==
  /\ pc = "resolved"
  /\ outcome' = Exported(entry, resolved)
  /\ pc' = "done"
  /\ UNCHANGED <<rev, environ, keysFile, fileResult, entry, calls, dopplerToken,
                 promise, attempts, listCalls, stderr, resolved>>

Next ==
  \/ \E e \in Entries : Invoke(e)
  \/ ReadEnvironment
  \/ ReadToken
  \/ ListSecrets
  \/ SdkResponds
  \/ SdkThrows
  \/ ResumeAfterList
  \/ Return

Spec == Init /\ [][Next]_vars

-----------------------------------------------------------------------------
(* loadCredentialsFromFile on its own: no exported function calls it *)

FileInit ==
  /\ rev \in {"env", "sdk"}
  /\ environ = [GOOGLE_CLIENT_ID |-> Undefined, GOOGLE_CLIENT_SECRET |-> Undefined,
                GOOGLE_REDIRECT_URI |-> Undefined, DOPPLER_TOKEN |-> Undefined,
                NODE_ENV |-> Undefined]
  /\ keysFile \in KeyFiles
  /\ fileResult = Pending
  /\ Idle

\* Lines 5-23 and 82-100.
ReadKeysFile ==
  /\ fileResult' = loadCredentialsFromFile(keysFile)
  /\ UNCHANGED <<rev, environ, keysFile, pc, entry, calls, dopplerToken, promise,
                 attempts, listCalls, stderr, resolved, outcome>>

FileNext == ReadKeysFile

FileSpec == FileInit /\ [][FileNext]_vars

-----------------------------------------------------------------------------
(* Properties *)

\* Message m holds the fragments of r, in order and next to each other.
Contains(m, r) ==
  \E i \in 0..Len(m) : i + Len(r) <= Len(m) /\ SubSeq(m, i + 1, i + Len(r)) = r

\* Message m names the variable or the shape v.
Names(m, v) == \E i \in 1..Len(m) : m[i] = v

NonEmptyString(v) == v.t = "string" /\ v.s # ""

Settled == pc \in {"resolved", "done"}

SourceOrder == <<"file", "environment", "remote">>

FileSource == loadCredentialsFromFile(keysFile)
EnvironmentSource == EnvironmentCredentials(environ)

\* C1: a call reads the sources in the order file, environment, remote, stops at
\* the first that succeeds and returns its record; a later source is read only
\* after every earlier one has failed.
C1_PriorityOrder ==
  Settled =>
    /\ \E n \in 1..3 : attempts = SubSeq(SourceOrder, 1, n)
    /\ FileSource.state = "fulfilled" => attempts = <<"file">> /\ resolved = FileSource
    /\ FileSource.state = "rejected" /\ EnvironmentSource.state = "fulfilled"
         => attempts = <<"file", "environment">> /\ resolved = EnvironmentSource
    /\ FileSource.state = "rejected" /\ EnvironmentSource.state = "rejected"
         => attempts = SourceOrder

\* C2: when the file, the environment and the remote source all fail, the
\* message of the failed call holds the reason of each of the three.
C2_AggregatedReasons ==
  (pc = "done" /\ FileSource.state = "rejected" /\ EnvironmentSource.state = "rejected"
     /\ outcome.state = "rejected")
    => /\ Contains(outcome.message, FileSource.message)
       /\ Contains(outcome.message, EnvironmentSource.message)
       /\ "remote" \in {attempts[i] : i \in 1..Len(attempts)}
       /\ Contains(outcome.message, resolved.message)

Complete(r) ==
  /\ NonEmptyString(r.client_id)
  /\ NonEmptyString(r.client_secret)
  /\ r.redirect_uris.t = "array"
  /\ Len(r.redirect_uris.a) >= 1

\* C3: every record a source reader returns has a non-empty client_id, a
\* non-empty client_secret and at least one redirect URI; here the file reader.
C3_CompleteRecord == fileResult.state = "fulfilled" => Complete(fileResult.value)

Has(v) == v.t # "undefined"

ReadParsed == fileResult.state # "pending" /\ keysFile.state = "parsed"

NamesBothShapes(m) ==
  Names(m, "\"installed\" object") /\ Names(m, "direct client_id/client_secret fields")

EnvNames == {"GOOGLE_CLIENT_ID", "GOOGLE_CLIENT_SECRET", "GOOGLE_REDIRECT_URI"}

EnvironmentRecord ==
  [client_id |-> environ.GOOGLE_CLIENT_ID, client_secret |-> environ.GOOGLE_CLIENT_SECRET,
   redirect_uris |-> Arr(<<environ.GOOGLE_REDIRECT_URI.s>>)]

\* C5 as claimed: the environment reader succeeds exactly when the three
\* variables are non-empty, with their values and the one redirect URI; when it
\* fails the message names the variables that are missing, and only those.
C5_NamesTheMissing ==
  (Settled /\ rev = "env") =>
    /\ resolved.state = "fulfilled" <=> \A v \in EnvNames : NonEmptyString(environ[v])
    /\ resolved.state = "fulfilled" => resolved.value = EnvironmentRecord
    /\ resolved.state = "rejected" =>
         \A v \in EnvNames : Names(resolved.message, v) <=> ~NonEmptyString(environ[v])

\* C5, amended: when the reader fails the message names all three variables,
\* whichever of them are missing.
C5_NamesAllThree ==
  (Settled /\ rev = "env") =>
    /\ resolved.state = "fulfilled" <=> \A v \in EnvNames : NonEmptyString(environ[v])
    /\ resolved.state = "fulfilled" => resolved.value = EnvironmentRecord
    /\ resolved.state = "rejected" => \A v \in EnvNames : Names(resolved.message, v)

\* The reader has failed with one variable of the three missing.
C5_Witness ==
  /\ Settled
  /\ rev = "env"
  /\ resolved.state = "rejected"
  /\ Cardinality({v \in EnvNames : ~NonEmptyString(environ[v])}) = 1

\* C6: without a token (DOPPLER_TOKEN unset or empty) the second revision fails
\* with the reason of the missing token and never calls list; list is called
\* only with the token found.
C6_NoListWithoutToken ==
  rev = "sdk" =>
    /\ (listCalls > 0 \/ pc \in {"list", "awaiting"}) =>
         NonEmptyString(dopplerToken) /\ dopplerToken = environ.DOPPLER_TOKEN
    /\ ~NonEmptyString(environ.DOPPLER_TOKEN) =>
         /\ listCalls = 0
         /\ promise = ListPending
         /\ Settled => resolved.state = "rejected" /\ Contains(resolved.message, TokenMessage)

\* A call has failed on the empty token.
C6_Witness ==
  /\ rev = "sdk"
  /\ pc = "done"
  /\ environ.DOPPLER_TOKEN = Str("")
  /\ listCalls = 0
  /\ outcome.state = "rejected"

Wrapped(m) == Len(m) >= 1 /\ m[1] = DopplerPrefix

\* C7 as claimed: what list throws comes out as the wrapped failure with the
\* message of what was thrown, and that failure is told apart from the failures
\* of the missing token and of the missing secrets: only it is wrapped.
C7_SdkFailureDistinguishable ==
  (Settled /\ rev = "sdk") =>
    /\ promise.state = "rejected" =>
         /\ resolved.state = "rejected"
         /\ Wrapped(resolved.message)
         /\ Names(resolved.message, promise.error.s)
    /\ (resolved.state = "rejected" /\ Wrapped(resolved.message)) =>
         promise.state = "rejected"

\* C7, amended: what list throws is caught and comes out as the wrapped
\* failure: the prefix, then the message of an Error or the string form of any
\* other value; the caller gets it wrapped once more and never as thrown. Every
\* failure of the second revision has the same prefix.
C7_SdkFailureWrapped ==
  (Settled /\ rev = "sdk") =>
    /\ promise.state = "rejected" =>
         /\ resolved = Rejected(<<DopplerPrefix,
                                  IF promise.error.t \in {"Error", "string"}
                                  THEN promise.error.s ELSE "[object Object]">>)
         /\ pc = "done" =>
              /\ outcome.state = "rejected"
              /\ Len(outcome.message) = 3
              /\ SubSeq(outcome.message, 2, 3) = resolved.message
    /\ resolved.state = "rejected" => Wrapped(resolved.message)

\* A call has failed on an Error thrown by list.
C7_Witness ==
  /\ rev = "sdk"
  /\ pc = "done"
  /\ promise.state = "rejected"
  /\ promise.error.t = "Error"
  /\ outcome.state = "rejected"

C9_NoRetries ==
  /\ listCalls <= 1
  /\ \A i, j \in 1..Len(attempts) : attempts[i] = attempts[j] => i = j
  /\ Settled => Len(attempts) = 1
  /\ listCalls = 1 => attempts = <<"remote">>

\* The second call has called list once more, after list threw in it.
C9_Witness ==
  /\ calls = 2
  /\ pc = "done"
  /\ promise.state = "rejected"
  /\ listCalls = 1
  /\ attempts = <<"remote">>

\* C10: a call writes the notice of its source exactly when the source succeeded
\* and NODE_ENV is not 'test', once, and what it settles with does not depend
\* on NODE_ENV.
C10_NoticeIffSuccess ==
  /\ Len(stderr) <= 1
  /\ ~Settled => stderr = <<>>
  /\ Settled =>
       (stderr # <<>> <=> (resolved.state = "fulfilled" /\ environ.NODE_ENV # Str("test")))
  /\ stderr # <<>> =>
       stderr[1] = (IF rev = "env" THEN EnvironmentNotice ELSE DopplerNotice)
  /\ (Settled /\ rev = "env") =>
       resolved = EnvironmentCredentials([environ EXCEPT !.NODE_ENV = Str("test")])
  /\ (Settled /\ rev = "sdk") =>
       resolved \in {DopplerFailure(TokenMessage), RemoteCredentials(promise)}

\* A source has succeeded under test mode and nothing was written.
C10_Witness ==
  /\ pc = "done"
  /\ resolved.state = "fulfilled"
  /\ environ.NODE_ENV = Str("test")
  /\ stderr = <<>>
====
